---- MODULE Spec2Model ----
(***************************************************************************)
(* A model of src/app.py: eight FastAPI routes, the Item / ItemResponse    *)
(* schemas, the query-parameter dependency and the ItemService dependency. *)
(*                                                                         *)
(* Representation.                                                         *)
(*   - Text on the wire (a path segment, a query value, a JSON string) is  *)
(*     a sequence of one-character strings; a Python str is a TLA+ string  *)
(*     (Join turns the former into the latter).                            *)
(*   - A Python value is a tagged record: None, PyStr, PyInt, PyFloat.     *)
(*   - A float is held in hundredths (19.99 is 1999, 1.5 is 150).          *)
(*   - A JSON value of a request body is a tagged record: JNull, JNum,     *)
(*     JStr, JObj (a function from the keys that are present). A JSON      *)
(*     value of a response is JNull, JNum, JInt, JText or a record.        *)
(*                                                                         *)
(* The framework's part (routing by method and path, coercion of the       *)
(* annotated parameters, 422 before the handler, the response model, the   *)
(* JSON encoding of return values and of HTTPException) is modelled at the *)
(* places of the source that ask for it: the decorators, the annotations   *)
(* and the schema classes. Request bodies are standard JSON values.        *)
(***************************************************************************)
EXTENDS Integers, Sequences, FiniteSets, TLC

\* Longest path segment / query value, in characters.
MaxLen == 2
\* Number of connections served concurrently under SpecConc.
MaxClients == 2

\* Characters of path segments and query values: digits, a sign, a letter.
Alphabet == {"0", "1", "2", "-", "a"}

---------------------------------------------------------------------------
(* Python and JSON values                                                  *)

None == [t |-> "None"]
PyStr(s) == [t |-> "str", s |-> s]
PyInt(i) == [t |-> "int", i |-> i]
PyFloat(h) == [t |-> "float", f |-> h]

JNull == [t |-> "null"]
JNum(h) == [t |-> "number", n |-> h]
JStr(cs) == [t |-> "string", cs |-> cs]
JObj(o) == [t |-> "object", o |-> o]
\* JSON values of a response: a string carries a str, an integer an int.
JText(s) == [t |-> "string", s |-> s]
JInt(i) == [t |-> "integer", i |-> i]

RECURSIVE Join(_)
\* The str made of the characters cs.
Join(cs) == IF cs = <<>> THEN "" ELSE Head(cs) \o Join(Tail(cs))

\* str(v), as an f-string's {v} formats it.
Format(v) ==
    CASE v.t = "None" -> "None"
      [] v.t = "str" -> v.s
      [] v.t = "int" -> ToString(v.i)

---------------------------------------------------------------------------
(* Coercion of wire text to the annotated parameter types                  *)

DigitValue == ("0" :> 0 @@ "1" :> 1 @@ "2" :> 2)

RECURSIVE DecimalValue(_, _)
\* The value of the digit string cs read left to right onto acc.
DecimalValue(cs, acc) ==
    IF cs = <<>> THEN acc
    ELSE DecimalValue(Tail(cs), 10 * acc + DigitValue[Head(cs)])

AllDigits(cs) == cs # <<>> /\ \A k \in 1..Len(cs) : cs[k] \in DOMAIN DigitValue

\* `int` annotation applied to text: an optional sign, then digits.
int_validate(cs) ==
    LET neg == cs # <<>> /\ Head(cs) = "-"
        digits == IF neg THEN Tail(cs) ELSE cs
    IN IF AllDigits(digits)
       THEN [ok |-> TRUE,
             value |-> PyInt(IF neg THEN 0 - DecimalValue(digits, 0)
                                    ELSE DecimalValue(digits, 0))]
       ELSE [ok |-> FALSE]

\* `str` annotation applied to a JSON value: only a JSON string is a str.
str_validate(j) ==
    IF j.t = "string" THEN [ok |-> TRUE, value |-> PyStr(Join(j.cs))]
    ELSE [ok |-> FALSE]

\* `float` annotation applied to a JSON value: a number is taken as is, a
\* string is accepted when it spells a number, anything else is an error.
float_validate(j) ==
    CASE j.t = "number" -> [ok |-> TRUE, value |-> PyFloat(j.n)]
      [] j.t = "string" ->
            LET r == int_validate(j.cs)
            IN IF r.ok THEN [ok |-> TRUE, value |-> PyFloat(100 * r.value.i)]
               ELSE [ok |-> FALSE]
      [] OTHER -> [ok |-> FALSE]

\* A JSON value validated against the annotation `type`.
field_validate(type, j) ==
    CASE type = "str" -> str_validate(j)
      [] type = "float" -> float_validate(j)

\* A required field: it must be present and valid (null is not valid).
Required(o, key, type) ==
    IF key \in DOMAIN o THEN field_validate(type, o[key]) ELSE [ok |-> FALSE]

\* Variant of OptionalField: the field has no default, so it is required.
OptionalField_no_default(o, key, type) ==
    IF key \notin DOMAIN o THEN [ok |-> FALSE]
    ELSE IF o[key].t = "null" THEN [ok |-> TRUE, value |-> None]
    ELSE field_validate(type, o[key])

\* An Optional[...] = None field: absent or null gives None.
OptionalField(o, key, type) ==
    IF key \notin DOMAIN o THEN [ok |-> TRUE, value |-> None]
    ELSE IF o[key].t = "null" THEN [ok |-> TRUE, value |-> None]
    ELSE field_validate(type, o[key])

FieldNames == {"name", "description", "price", "tax"}

\* Validation of a JSON value against the Item schema. The result carries
\* the Item instance or the set of fields in error ("body" when the value
\* is not an object at all).
Item(j) ==
    IF j.t # "object" THEN [ok |-> FALSE, errors |-> {"body"}]
    ELSE
      LET name == Required(j.o, "name", "str")
          description == OptionalField(j.o, "description", "str")
          price == Required(j.o, "price", "float")
          tax == OptionalField(j.o, "tax", "float")
          errors == {k \in FieldNames :
                        \/ k = "name" /\ ~name.ok
                        \/ k = "description" /\ ~description.ok
                        \/ k = "price" /\ ~price.ok
                        \/ k = "tax" /\ ~tax.ok}
      IN IF errors = {}
         THEN [ok |-> TRUE,
               value |-> [name |-> name.value,
                          description |-> description.value,
                          price |-> price.value,
                          tax |-> tax.value]]
         ELSE [ok |-> FALSE, errors |-> errors]

---------------------------------------------------------------------------
(* Requests                                                                *)

NoQuery == [present |-> FALSE]
QueryString(cs) == [present |-> TRUE, cs |-> cs]
NoBody == [t |-> "nobody"]

\* A request: method, first path segment, second path segment (<<>> when
\* the path has none), the query parameter q and the JSON body.
Request(method, prefix, seg, q, body) ==
    [method |-> method, prefix |-> prefix, seg |-> seg, q |-> q, body |-> body]

NoRequest == Request("", "", <<>>, NoQuery, NoBody)

Strings(n) == UNION {[1..k -> Alphabet] : k \in 0..n}
Segments == Strings(MaxLen) \ {<<>>}
Queries == {NoQuery} \cup {QueryString(cs) : cs \in Strings(MaxLen)}

NameValues == {JNull, JStr(<<"a">>)}
DescriptionValues == {JStr(<<"d">>)}
NumberValues == {JNull, JNum(100), JStr(<<"2">>), JStr(<<"a">>)}

FieldValues(k) ==
    CASE k = "name" -> NameValues
      [] k = "description" -> DescriptionValues
      [] k = "price" -> NumberValues
      [] k = "tax" -> NumberValues

\* JSON bodies: every object over the four field names, and a non-object.
Objects ==
    UNION {{o \in [D -> NameValues \cup DescriptionValues \cup NumberValues] :
               \A k \in D : o[k] \in FieldValues(k)} : D \in SUBSET FieldNames}
Bodies == {JObj(o) : o \in Objects} \cup {JNull}

\* Every request to one of the eight routes, within the bounds.
Requests ==
    {Request("GET", "hello", <<>>, q, NoBody) : q \in Queries}
    \cup {Request("GET", "items", s, NoQuery, NoBody) : s \in Segments}
    \cup {Request("POST", "items", <<>>, NoQuery, b) : b \in Bodies}
    \cup {Request("PUT", "items", sb[1], NoQuery, sb[2]) : sb \in Segments \X Bodies}
    \cup {Request("DELETE", "items", s, NoQuery, NoBody) : s \in Segments}
    \cup {Request("GET", "error", <<>>, NoQuery, NoBody)}
    \cup {Request("GET", "item", s, NoQuery, NoBody) : s \in Segments}
    \cup {Request("GET", "service-item", s, NoQuery, NoBody) : s \in Segments}

GoodBody == JObj("name" :> JStr(<<"a">>) @@ "price" :> JNum(100))
BadBody == JObj("name" :> JStr(<<"a">>))

\* The request mix of the concurrent specification: each route with a valid
\* input, a path value and a body that do not validate, and a lookup miss.
ConcRequests ==
    {Request("GET", "hello", <<>>, NoQuery, NoBody),
     Request("GET", "items", <<"1">>, NoQuery, NoBody),
     Request("GET", "items", <<"a">>, NoQuery, NoBody),
     Request("POST", "items", <<>>, NoQuery, GoodBody),
     Request("PUT", "items", <<"1">>, NoQuery, GoodBody),
     Request("PUT", "items", <<"a">>, NoQuery, BadBody),
     Request("DELETE", "items", <<"1">>, NoQuery, NoBody),
     Request("GET", "error", <<>>, NoQuery, NoBody),
     Request("GET", "item", <<"1">>, NoQuery, NoBody),
     Request("GET", "service-item", <<"1">>, NoQuery, NoBody),
     Request("GET", "service-item", <<"a">>, NoQuery, NoBody)}

---------------------------------------------------------------------------
(* Routing                                                                 *)

Route(method, prefix, param, endpoint) ==
    [method |-> method, prefix |-> prefix, param |-> param, endpoint |-> endpoint]

\* The route table, in the order of the decorators.
app ==
    << Route("GET", "hello", FALSE, "hello"),
       Route("GET", "items", TRUE, "read_item"),
       Route("POST", "items", FALSE, "create_item"),
       Route("PUT", "items", TRUE, "update_item"),
       Route("DELETE", "items", TRUE, "delete_item"),
       Route("GET", "error", FALSE, "trigger_error"),
       Route("GET", "item", TRUE, "get_item"),
       Route("GET", "service-item", TRUE, "read_item_service") >>

\* Variant of Matches: the method is not looked at.
Matches_any_method(route, req) ==
    /\ route.prefix = req.prefix
    /\ route.param = (req.seg # <<>>)

Matches(route, req) ==
    /\ route.method = req.method
    /\ route.prefix = req.prefix
    /\ route.param = (req.seg # <<>>)

\* The endpoint of the first route that matches the request.
Dispatch(req) ==
    LET hits == {k \in 1..Len(app) : Matches(app[k], req)}
    IN app[CHOOSE k \in hits : \A j \in hits : k <= j].endpoint

\* Endpoints that declare `item_id: int`, `item_id: str`, `item: Item`.
IntPathEndpoints == {"read_item", "update_item", "delete_item", "get_item"}
StrPathEndpoints == {"read_item_service"}
BodyEndpoints == {"create_item", "update_item"}
\* Endpoints with a Depends(...) parameter.
DependsEndpoints == {"hello", "read_item_service"}

---------------------------------------------------------------------------
(* State                                                                   *)

VARIABLES
    conn,      \* conn[c]: the request connection c has in flight, and how far it
               \* is; conn[c].after is history: `deleted` when the request arrived
    heap,      \* the live ItemService objects, by address
    deleted    \* history: the tracked ids a DELETE has answered with success

vars == <<conn, heap, deleted>>

Clients == 1..MaxClients
\* Ids whose DELETE the history variable records.
TrackedIds == {1}

NoArgs == [item_id |-> None, item |-> None, q |-> None]
NoResult == [kind |-> "none"]
NoResponse == [status |-> 0]

Return(value) == [kind |-> "return", value |-> value]
\* raise HTTPException(status_code=..., detail=...)
HTTPException(status_code, detail) ==
    [kind |-> "raise", status_code |-> status_code, detail |-> PyStr(detail)]

Response(status, body) == [status |-> status, body |-> body]
\* The body of a request-validation failure: where the errors are.
ValidationErrors(locs) == [t |-> "errors", locs |-> locs]

Idle ==
    [pc |-> "idle", req |-> NoRequest, endpoint |-> "", args |-> NoArgs,
     service |-> 0, item |-> None, result |-> NoResult, resp |-> NoResponse,
     after |-> {}]

\* dict.get(key, default)
DictGet(d, key, default) == IF key \in DOMAIN d THEN d[key] ELSE default

\* ItemService.__init__
ItemService == [items |-> ("1" :> PyStr("Item 1") @@ "2" :> PyStr("Item 2"))]

\* Variant of ItemService.get_item: the lookup has no default.
ItemService_get_item_no_default(self, item_id) ==
    DictGet(self.items, item_id.s, None)

\* ItemService.get_item
ItemService_get_item(self, item_id) ==
    DictGet(self.items, item_id.s, PyStr("Item not found"))

\* An address no live object has.
NewAddress == CHOOSE a \in 1..(Cardinality(DOMAIN heap) + 1) : a \notin DOMAIN heap

\* The heap once connection c has dropped its reference to the object at a:
\* the object goes when nothing else refers to it.
Release(c, a) ==
    IF a = 0 \/ \E d \in Clients \ {c} : conn[d].service = a THEN heap
    ELSE [b \in DOMAIN heap \ {a} |-> heap[b]]

Init ==
    /\ conn = [c \in Clients |-> Idle]
    /\ heap = <<>>
    /\ deleted = {}

---------------------------------------------------------------------------
(* The framework around the handlers                                       *)

\* A request arrives on an idle connection.
Receive(c, requests) ==
    /\ conn[c].pc = "idle"
    /\ \E req \in requests :
          conn' = [conn EXCEPT ![c] = [Idle EXCEPT !.pc = "received", !.req = req,
                                                   !.after = deleted]]
    /\ UNCHANGED <<heap, deleted>>

\* The path, query and body parameters an endpoint declares, coerced from
\* the request; errors is the set of those that do not validate.
Parameters(endpoint, req) ==
    LET path == IF endpoint \in IntPathEndpoints THEN int_validate(req.seg)
                ELSE IF endpoint \in StrPathEndpoints
                     THEN [ok |-> TRUE, value |-> PyStr(Join(req.seg))]
                     ELSE [ok |-> TRUE, value |-> None]
        body == IF endpoint \in BodyEndpoints THEN Item(req.body)
                ELSE [ok |-> TRUE, value |-> None]
        errors == (IF path.ok THEN {} ELSE {<<"path", "item_id">>})
                  \cup (IF body.ok THEN {} ELSE {<<"body", k>> : k \in body.errors})
    IN IF errors = {}
       THEN [ok |-> TRUE,
             args |-> [item_id |-> path.value, item |-> body.value, q |-> None]]
       ELSE [ok |-> FALSE, errors |-> errors]

\* The request is routed and its parameters validated; a request that does
\* not validate is answered 422 and its handler never runs.
Validate(c) ==
    /\ conn[c].pc = "received"
    /\ LET endpoint == Dispatch(conn[c].req)
           p == Parameters(endpoint, conn[c].req)
       IN conn' = [conn EXCEPT ![c] =
            IF p.ok
            THEN [@ EXCEPT !.pc = IF endpoint \in DependsEndpoints
                                  THEN "depends" ELSE "call",
                           !.endpoint = endpoint, !.args = p.args]
            ELSE [@ EXCEPT !.pc = "responded", !.endpoint = endpoint,
                           !.resp = Response(422, ValidationErrors(p.errors))]]
    /\ UNCHANGED <<heap, deleted>>

---------------------------------------------------------------------------
(* Dependencies                                                            *)

\* Query(None): the query parameter as a str, None when it is absent.
Query(default, q) == IF q.present THEN PyStr(Join(q.cs)) ELSE default

\* Variant of get_query_param: an absent q becomes the empty str.
get_query_param_or_empty(q) == IF q = None THEN PyStr("") ELSE q

\* get_query_param: returns q.
get_query_param(q) == q

\* Depends(get_query_param) is resolved for hello.
Depends_get_query_param(c) ==
    /\ conn[c].pc = "depends"
    /\ conn[c].endpoint = "hello"
    /\ conn' = [conn EXCEPT ![c].pc = "call",
                            ![c].args.q = get_query_param(Query(None, conn[c].req.q))]
    /\ UNCHANGED <<heap, deleted>>

\* Variant of get_item_service: one ItemService is shared by the requests
\* in flight.
get_item_service_shared(c) ==
    /\ conn[c].pc = "depends"
    /\ conn[c].endpoint = "read_item_service"
    /\ LET a == IF DOMAIN heap = {} THEN NewAddress
                ELSE CHOOSE b \in DOMAIN heap : TRUE
       IN /\ heap' = (a :> ItemService) @@ heap
          /\ conn' = [conn EXCEPT ![c].pc = "call", ![c].service = a]
    /\ UNCHANGED deleted

\* Depends(get_item_service) is resolved for read_item_service: a new
\* ItemService is constructed and handed to this request.
get_item_service(c) ==
    /\ conn[c].pc = "depends"
    /\ conn[c].endpoint = "read_item_service"
    /\ heap' = heap @@ (NewAddress :> ItemService)
    /\ conn' = [conn EXCEPT ![c].pc = "call", ![c].service = NewAddress]
    /\ UNCHANGED deleted

---------------------------------------------------------------------------
(* Handlers                                                                *)

\* Handler `endpoint` is at its first statement on connection c.
Called(c, endpoint) == conn[c].pc = "call" /\ conn[c].endpoint = endpoint

\* The handler on connection c ends with `result`.
Finish(c, result) ==
    conn' = [conn EXCEPT ![c].pc = "returned", ![c].result = result]

hello(c) ==
    /\ Called(c, "hello")
    /\ Finish(c, Return([Hello |-> PyStr("How are you? Query Parameter: "
                                          \o Format(conn[c].args.q))]))
    /\ UNCHANGED <<heap, deleted>>

\* Variant of read_item: the id is returned as text.
read_item_as_text(c) ==
    /\ Called(c, "read_item")
    /\ Finish(c, Return([item_id |-> PyStr(Format(conn[c].args.item_id))]))
    /\ UNCHANGED <<heap, deleted>>

read_item(c) ==
    /\ Called(c, "read_item")
    /\ Finish(c, Return([item_id |-> conn[c].args.item_id]))
    /\ UNCHANGED <<heap, deleted>>

create_item(c) ==
    /\ Called(c, "create_item")
    /\ Finish(c, Return([item |-> conn[c].args.item]))
    /\ UNCHANGED <<heap, deleted>>

update_item(c) ==
    /\ Called(c, "update_item")
    /\ Finish(c, Return([item_id |-> conn[c].args.item_id,
                         item |-> conn[c].args.item]))
    /\ UNCHANGED <<heap, deleted>>

\* Variant of delete_item: the id is also removed from every live ItemService.
delete_item_from_services(c) ==
    /\ Called(c, "delete_item")
    /\ Finish(c, Return([message |-> PyStr("Item with ID "
                                            \o Format(conn[c].args.item_id)
                                            \o " deleted")]))
    /\ heap' = [a \in DOMAIN heap |->
                  [items |-> [k \in DOMAIN heap[a].items
                                      \ {Format(conn[c].args.item_id)}
                                |-> heap[a].items[k]]]]
    /\ UNCHANGED deleted

delete_item(c) ==
    /\ Called(c, "delete_item")
    /\ Finish(c, Return([message |-> PyStr("Item with ID "
                                            \o Format(conn[c].args.item_id)
                                            \o " deleted")]))
    /\ UNCHANGED <<heap, deleted>>

\* Variant of trigger_error: the error is returned, not raised.
trigger_error_returned(c) ==
    /\ Called(c, "trigger_error")
    /\ Finish(c, Return([detail |-> PyStr("This is a custom error")]))
    /\ UNCHANGED <<heap, deleted>>

trigger_error(c) ==
    /\ Called(c, "trigger_error")
    /\ Finish(c, HTTPException(404, "This is a custom error"))
    /\ UNCHANGED <<heap, deleted>>

\* Variant of get_item: the payload has no price.
get_item_without_price(c) ==
    /\ Called(c, "get_item")
    /\ Finish(c, Return([name |-> PyStr("Sample Item"),
                         description |-> PyStr("A sample item description"),
                         tax |-> PyFloat(150)]))
    /\ UNCHANGED <<heap, deleted>>

\* Variant of get_item: the payload names the id asked for.
get_item_by_id(c) ==
    /\ Called(c, "get_item")
    /\ Finish(c, Return([name |-> PyStr("Item " \o Format(conn[c].args.item_id)),
                         description |-> PyStr("A sample item description"),
                         price |-> PyFloat(1999),
                         tax |-> PyFloat(150)]))
    /\ UNCHANGED <<heap, deleted>>

get_item(c) ==
    /\ Called(c, "get_item")
    /\ Finish(c, Return([name |-> PyStr("Sample Item"),
                         description |-> PyStr("A sample item description"),
                         price |-> PyFloat(1999),
                         tax |-> PyFloat(150)]))
    /\ UNCHANGED <<heap, deleted>>

\* read_item_service, first statement: item = service.get_item(item_id)
read_item_service_lookup(c) ==
    /\ Called(c, "read_item_service")
    /\ conn' = [conn EXCEPT
                  ![c].pc = "lookup",
                  ![c].item = ItemService_get_item(heap[conn[c].service],
                                                   conn[c].args.item_id)]
    /\ UNCHANGED <<heap, deleted>>

\* read_item_service, the rest: the sentinel becomes a 404.
read_item_service(c) ==
    /\ conn[c].pc = "lookup"
    /\ Finish(c, IF conn[c].item = PyStr("Item not found")
                 THEN HTTPException(404, "Item not found")
                 ELSE Return([item_id |-> conn[c].args.item_id,
                              item |-> conn[c].item]))
    /\ UNCHANGED <<heap, deleted>>

---------------------------------------------------------------------------
(* Responses                                                               *)

\* A field of a response model, validated from a Python value.
PyField(d, key, type, optional) ==
    IF key \notin DOMAIN d THEN [ok |-> optional, value |-> None]
    ELSE IF d[key].t = "None" THEN [ok |-> optional, value |-> None]
    ELSE [ok |-> d[key].t = type, value |-> d[key]]

\* Validation of a handler's return value against the ItemResponse schema.
ItemResponse(d) ==
    LET name == PyField(d, "name", "str", FALSE)
        description == PyField(d, "description", "str", TRUE)
        price == PyField(d, "price", "float", FALSE)
        tax == PyField(d, "tax", "float", TRUE)
    IN IF name.ok /\ description.ok /\ price.ok /\ tax.ok
       THEN [ok |-> TRUE,
             value |-> [name |-> name.value, description |-> description.value,
                        price |-> price.value, tax |-> tax.value]]
       ELSE [ok |-> FALSE]

RECURSIVE jsonable_encoder(_)
\* The JSON form of a return value: None is null, a dict or a model is an
\* object of its encoded fields.
jsonable_encoder(v) ==
    IF "t" \in DOMAIN v
    THEN CASE v.t = "None" -> JNull
           [] v.t = "str" -> JText(v.s)
           [] v.t = "int" -> JInt(v.i)
           [] v.t = "float" -> JNum(v.f)
    ELSE [k \in DOMAIN v |-> jsonable_encoder(v[k])]

\* The response the framework makes of a handler's result.
Serialize(endpoint, result) ==
    IF result.kind = "raise"
    THEN Response(result.status_code, [detail |-> jsonable_encoder(result.detail)])
    ELSE IF endpoint = "get_item"
    THEN LET r == ItemResponse(result.value)
         IN IF r.ok THEN Response(200, jsonable_encoder(r.value))
            ELSE Response(500, JText("Internal Server Error"))
    ELSE Response(200, jsonable_encoder(result.value))

\* The handler's result is sent; the request's ItemService is dropped.
SendResponse(c) ==
    /\ conn[c].pc = "returned"
    /\ conn' = [conn EXCEPT ![c].pc = "responded", ![c].service = 0,
                            ![c].resp = Serialize(conn[c].endpoint, conn[c].result)]
    /\ heap' = Release(c, conn[c].service)
    /\ deleted' = IF /\ conn[c].endpoint = "delete_item"
                     /\ conn[c].result.kind = "return"
                     /\ conn[c].args.item_id.i \in TrackedIds
                  THEN deleted \cup {conn[c].args.item_id.i}
                  ELSE deleted

\* The client has read the response; the connection is idle again.
Complete(c) ==
    /\ conn[c].pc = "responded"
    /\ conn' = [conn EXCEPT ![c] = Idle]
    /\ UNCHANGED <<heap, deleted>>

---------------------------------------------------------------------------
(* Specifications                                                          *)

Step(c) ==
    \/ Validate(c)
    \/ Depends_get_query_param(c)
    \/ get_item_service(c)
    \/ hello(c)
    \/ read_item(c)
    \/ create_item(c)
    \/ update_item(c)
    \/ delete_item(c)
    \/ trigger_error(c)
    \/ get_item(c)
    \/ read_item_service_lookup(c)
    \/ read_item_service(c)
    \/ SendResponse(c)
    \/ Complete(c)

\* One connection, every request within the bounds.
Next == Receive(1, Requests) \/ Step(1)
Spec == Init /\ [][Next]_vars

\* Spec with the server's guarantee that a request it has received is
\* worked on until it is answered.
SpecFair == Spec /\ WF_vars(Step(1))

\* MaxClients connections served concurrently, the request mix ConcRequests.
NextConc == \E c \in Clients : Receive(c, ConcRequests) \/ Step(c)
SpecConc == Init /\ [][NextConc]_vars

---------------------------------------------------------------------------
(* What the routes are specified to answer, stated from the request alone  *)

\* The digits of a decimal text, without its sign.
Digits(cs) == IF cs # <<>> /\ Head(cs) = "-" THEN Tail(cs) ELSE cs

IsIntegerText(cs) ==
    /\ Digits(cs) # <<>>
    /\ \A k \in 1..Len(Digits(cs)) : Digits(cs)[k] \in {"0", "1", "2"}

RECURSIVE StripZeros(_)
StripZeros(cs) ==
    IF Len(cs) > 1 /\ Head(cs) = "0" THEN StripZeros(Tail(cs)) ELSE cs

RECURSIVE Pow10(_)
Pow10(n) == IF n = 0 THEN 1 ELSE 10 * Pow10(n - 1)

\* The integer a decimal text spells: the one whose decimal form is the
\* text without sign and leading zeros.
IntegerOf ==
    [cs \in {s \in Strings(MaxLen) : IsIntegerText(s)} |->
        LET m == CHOOSE n \in 0..Pow10(MaxLen) :
                    ToString(n) = Join(StripZeros(Digits(cs)))
        IN IF Head(cs) = "-" THEN 0 - m ELSE m]

\* A JSON value that can be read as a number, and the number (hundredths).
IsNumeric(j) == j.t = "number" \/ (j.t = "string" /\ IsIntegerText(j.cs))
NumberOf(j) == IF j.t = "number" THEN j.n ELSE 100 * IntegerOf[j.cs]

Has(o, k) == k \in DOMAIN o
HasValue(o, k) == Has(o, k) /\ o[k].t # "null"

\* The fields of a JSON body that violate the Item schema.
BodyErrors(b) ==
    IF b.t # "object" THEN {<<"body", "body">>}
    ELSE {<<"body", k>> : k \in
            {k \in FieldNames :
               \/ k = "name" /\ ~(Has(b.o, k) /\ b.o[k].t = "string")
               \/ k = "description" /\ HasValue(b.o, k) /\ b.o[k].t # "string"
               \/ k = "price" /\ ~(Has(b.o, k) /\ IsNumeric(b.o[k]))
               \/ k = "tax" /\ HasValue(b.o, k) /\ ~IsNumeric(b.o[k])}}

PathErrors(seg) == IF IsIntegerText(seg) THEN {} ELSE {<<"path", "item_id">>}

\* The JSON of the Item a valid body describes: absent optional fields null.
ItemJson(o) ==
    [name |-> JText(Join(o["name"].cs)),
     description |-> IF HasValue(o, "description")
                     THEN JText(Join(o["description"].cs)) ELSE JNull,
     price |-> JNum(NumberOf(o["price"])),
     tax |-> IF HasValue(o, "tax") THEN JNum(NumberOf(o["tax"])) ELSE JNull]

SamplePayload ==
    [name |-> JText("Sample Item"),
     description |-> JText("A sample item description"),
     price |-> JNum(1999),
     tax |-> JNum(150)]

NotFound(detail) == Response(404, [detail |-> JText(detail)])
Unprocessable(locs) == Response(422, ValidationErrors(locs))

IsHello(req) == req.method = "GET" /\ req.prefix = "hello"
IsReadItem(req) == req.method = "GET" /\ req.prefix = "items"
IsCreateItem(req) == req.method = "POST" /\ req.prefix = "items"
IsUpdateItem(req) == req.method = "PUT" /\ req.prefix = "items"
IsDeleteItem(req) == req.method = "DELETE" /\ req.prefix = "items"
IsError(req) == req.method = "GET" /\ req.prefix = "error"
IsGetItem(req) == req.method = "GET" /\ req.prefix = "item"
IsServiceItem(req) == req.method = "GET" /\ req.prefix = "service-item"

ExpectedHello(req) ==
    Response(200, [Hello |-> JText("How are you? Query Parameter: "
                      \o (IF req.q.present THEN Join(req.q.cs) ELSE "None"))])

ExpectedReadItem(req) ==
    IF IsIntegerText(req.seg)
    THEN Response(200, [item_id |-> JInt(IntegerOf[req.seg])])
    ELSE Unprocessable(PathErrors(req.seg))

ExpectedCreateItem(req) ==
    IF BodyErrors(req.body) = {}
    THEN Response(200, [item |-> ItemJson(req.body.o)])
    ELSE Unprocessable(BodyErrors(req.body))

ExpectedUpdateItem(req) ==
    IF PathErrors(req.seg) \cup BodyErrors(req.body) = {}
    THEN Response(200, [item_id |-> JInt(IntegerOf[req.seg]),
                        item |-> ItemJson(req.body.o)])
    ELSE Unprocessable(PathErrors(req.seg) \cup BodyErrors(req.body))

ExpectedDeleteItem(req) ==
    IF IsIntegerText(req.seg)
    THEN Response(200, [message |-> JText("Item with ID "
                          \o ToString(IntegerOf[req.seg]) \o " deleted")])
    ELSE Unprocessable(PathErrors(req.seg))

ExpectedError == NotFound("This is a custom error")

ExpectedGetItem(req) ==
    IF IsIntegerText(req.seg) THEN Response(200, SamplePayload)
    ELSE Unprocessable(PathErrors(req.seg))

ExpectedServiceItem(req) ==
    CASE req.seg = <<"1">> ->
            Response(200, [item_id |-> JText("1"), item |-> JText("Item 1")])
      [] req.seg = <<"2">> ->
            Response(200, [item_id |-> JText("2"), item |-> JText("Item 2")])
      [] OTHER -> NotFound("Item not found")

\* The response to a request made of a server that has served nothing yet.
InitialResponse(req) ==
    CASE IsHello(req) -> ExpectedHello(req)
      [] IsReadItem(req) -> ExpectedReadItem(req)
      [] IsCreateItem(req) -> ExpectedCreateItem(req)
      [] IsUpdateItem(req) -> ExpectedUpdateItem(req)
      [] IsDeleteItem(req) -> ExpectedDeleteItem(req)
      [] IsError(req) -> ExpectedError
      [] IsGetItem(req) -> ExpectedGetItem(req)
      [] IsServiceItem(req) -> ExpectedServiceItem(req)

Responded(c) == conn[c].pc = "responded"
\* Connection c has been answered without its handler having run.
HandlerNotRun(c) == conn[c].result = NoResult

---------------------------------------------------------------------------
(* Claims                                                                  *)

\* C1: GET /service-item/{item_id} answers 200 with {"item_id": item_id,
\* "item": "Item 1" / "Item 2"} exactly when item_id is "1" / "2"; for any
\* other item_id the lookup yields the sentinel "Item not found" and the
\* answer is 404 with detail "Item not found".
C1_ServiceItem ==
    \A c \in Clients :
       IsServiceItem(conn[c].req) =>
          /\ conn[c].pc \in {"lookup", "returned", "responded"} =>
                conn[c].item =
                   CASE conn[c].req.seg = <<"1">> -> PyStr("Item 1")
                     [] conn[c].req.seg = <<"2">> -> PyStr("Item 2")
                     [] OTHER -> PyStr("Item not found")
          /\ Responded(c) =>
                /\ conn[c].resp = ExpectedServiceItem(conn[c].req)
                /\ conn[c].resp.status = 200 <=> conn[c].req.seg \in {<<"1">>, <<"2">>}
                /\ conn[c].resp.status = 404 <=> conn[c].req.seg \notin {<<"1">>, <<"2">>}

\* A miss has been answered: item_id "11" got the 404.
C1_Witness ==
    \E c \in Clients :
       /\ Responded(c)
       /\ IsServiceItem(conn[c].req)
       /\ conn[c].req.seg = <<"1", "1">>
       /\ conn[c].item = PyStr("Item not found")
       /\ conn[c].resp.status = 404

\* C2: no handler leaves anything behind for later requests: every live
\* ItemService holds exactly {"1": "Item 1", "2": "Item 2"} whatever has
\* been served before, and every response is the one the same request gets
\* from a server that has served nothing yet.
C2_NoSideEffects ==
    /\ \A a \in DOMAIN heap :
          heap[a] = [items |-> ("1" :> PyStr("Item 1") @@ "2" :> PyStr("Item 2"))]
    /\ \A c \in Clients :
          /\ conn[c].service # 0 => conn[c].service \in DOMAIN heap
          /\ Responded(c) => conn[c].resp = InitialResponse(conn[c].req)

\* A request for item "1" that arrived after DELETE /items/1 was answered
\* has been handed its ItemService and is about to look the item up.
C2_Witness ==
    \E c \in Clients :
       /\ conn[c].pc = "call"
       /\ IsServiceItem(conn[c].req)
       /\ conn[c].req.seg = <<"1">>
       /\ 1 \in conn[c].after
       /\ "1" \in DOMAIN heap[conn[c].service].items

\* C3: with requests served concurrently, every request to
\* /service-item/{item_id} holds an ItemService of its own that no other
\* request refers to, and under every interleaving its lookup and its
\* response are those of the request served alone.
C3_Isolation ==
    /\ \A c, d \in Clients :
          (c # d /\ conn[c].service # 0) => conn[c].service # conn[d].service
    /\ \A a \in DOMAIN heap : \E c \in Clients : conn[c].service = a
    /\ \A c \in Clients :
          /\ conn[c].pc \in {"call", "lookup", "returned"}
             /\ IsServiceItem(conn[c].req)
                => conn[c].service \in DOMAIN heap
          /\ conn[c].pc \in {"lookup", "returned", "responded"}
             /\ IsServiceItem(conn[c].req)
                => conn[c].item =
                     DictGet("1" :> PyStr("Item 1") @@ "2" :> PyStr("Item 2"),
                             Join(conn[c].req.seg), PyStr("Item not found"))
          /\ Responded(c) /\ IsServiceItem(conn[c].req)
                => conn[c].resp = ExpectedServiceItem(conn[c].req)
    /\ \A c, d \in Clients :
          (Responded(c) /\ Responded(d) /\ conn[c].req = conn[d].req)
             => conn[c].resp = conn[d].resp

\* Two requests for the same item are in flight at once, each with an
\* ItemService in hand, one before and one after its lookup.
C3_Witness ==
    \E c, d \in Clients :
       /\ c # d
       /\ conn[c].req = conn[d].req
       /\ IsServiceItem(conn[c].req)
       /\ conn[c].pc = "call"
       /\ conn[d].pc = "lookup"
       /\ conn[c].service # 0
       /\ conn[d].service # 0

\* C4: GET /items/{item_id} answers 200 with {"item_id": i}, i the integer
\* the path value spells, when the value is an integer text, and otherwise
\* 422 without read_item having run; never a server error.
C4_ReadItem ==
    \A c \in Clients :
       (Responded(c) /\ IsReadItem(conn[c].req)) =>
          /\ conn[c].resp.status \in {200, 422}
          /\ IF IsIntegerText(conn[c].req.seg)
             THEN conn[c].resp =
                    Response(200, [item_id |-> JInt(IntegerOf[conn[c].req.seg])])
             ELSE conn[c].resp.status = 422 /\ HandlerNotRun(c)

\* /items/-1 has been answered with the integer -1.
C4_Witness ==
    \E c \in Clients :
       /\ Responded(c)
       /\ IsReadItem(conn[c].req)
       /\ conn[c].req.seg = <<"-", "1">>
       /\ conn[c].resp = Response(200, [item_id |-> JInt(-1)])

FailureKinds(c) ==
    /\ conn[c].resp.status \in {200, 404, 422}
    /\ conn[c].resp.status = 422 =>
          /\ HandlerNotRun(c)
          /\ \/ IsReadItem(conn[c].req)
             \/ IsCreateItem(conn[c].req)
             \/ IsUpdateItem(conn[c].req)
             \/ IsDeleteItem(conn[c].req)
             \/ IsGetItem(conn[c].req)
    /\ conn[c].resp.status = 404 =>
          /\ conn[c].result.kind = "raise"
          /\ \/ IsError(conn[c].req)
                /\ conn[c].resp = NotFound("This is a custom error")
             \/ IsServiceItem(conn[c].req)
                /\ conn[c].resp = NotFound("Item not found")

C7_Error ==
    \A c \in Clients :
       IsError(conn[c].req) =>
          /\ conn[c].pc = "returned" => conn[c].result.kind = "raise"
          /\ Responded(c) =>
                /\ conn[c].result.kind = "raise"
                /\ conn[c].resp = Response(404, [detail |-> JText("This is a custom error")])

\* /error has been answered 404 on a request that arrived after a DELETE.
C7_Witness ==
    \E c \in Clients :
       /\ Responded(c)
       /\ IsError(conn[c].req)
       /\ conn[c].after # {}
       /\ conn[c].resp.status = 404

\* C8, as stated: GET /item/{item_id} is always answered 200 with the fixed
\* payload; the route has no failure outcome.
C8_AsStated ==
    \A c \in Clients :
       (Responded(c) /\ IsGetItem(conn[c].req)) =>
          conn[c].resp = Response(200, SamplePayload)

\* C8, amended: GET /item/{item_id} is answered 200 with the fixed payload,
\* the same for every integer item_id; its only failure is the 422 for a
\* path value that is not an integer, sent without get_item having run.
C8_GetItem ==
    \A c \in Clients :
       (Responded(c) /\ IsGetItem(conn[c].req)) =>
          IF IsIntegerText(conn[c].req.seg)
          THEN conn[c].resp =
                 Response(200, [name |-> JText("Sample Item"),
                                description |-> JText("A sample item description"),
                                price |-> JNum(1999),
                                tax |-> JNum(150)])
          ELSE conn[c].resp.status = 422 /\ HandlerNotRun(c)

\* /item/21 has been answered with the fixed payload.
C8_Witness ==
    \E c \in Clients :
       /\ Responded(c)
       /\ IsGetItem(conn[c].req)
       /\ conn[c].req.seg = <<"2", "1">>
       /\ conn[c].resp.status = 200
       /\ conn[c].resp.body.name = JText("Sample Item")

\* C9: GET /hello always succeeds: the resolver hands the handler q as it
\* came (None when absent) and the answer is 200 with {"Hello": "How are
\* you? Query Parameter: " followed by q, or by "None" when q is absent}.
C9_Hello ==
    \A c \in Clients :
       IsHello(conn[c].req) =>
          /\ conn[c].pc \in {"call", "returned", "responded"} =>
                conn[c].args.q = IF conn[c].req.q.present
                                 THEN PyStr(Join(conn[c].req.q.cs)) ELSE None
          /\ Responded(c) =>
                /\ conn[c].resp.status = 200
                /\ conn[c].resp = ExpectedHello(conn[c].req)

\* /hello without q has been answered with the text ending in "None".
C9_Witness ==
    \E c \in Clients :
       /\ Responded(c)
       /\ IsHello(conn[c].req)
       /\ ~conn[c].req.q.present
       /\ conn[c].resp.body = [Hello |-> JText("How are you? Query Parameter: None")]

\* C10: PUT /items/{item_id} answers 200 with {"item_id": i, "item": <Item>}
\* exactly when the path value is an integer text and the body a valid
\* Item, else 422 without update_item having run; DELETE /items/{item_id}
\* answers {"message": "Item with ID i deleted"} for an integer and 422
\* otherwise; GET, PUT and DELETE on the path go to read_item, update_item
\* and delete_item; and GET /items/i arriving after a DELETE of i was
\* answered still gets {"item_id": i}.
C10_ItemsByMethod ==
    \A c \in Clients :
       /\ (conn[c].pc \notin {"idle", "received"} /\ conn[c].req.prefix = "items"
             /\ conn[c].req.seg # <<>>) =>
             conn[c].endpoint = CASE conn[c].req.method = "GET" -> "read_item"
                                  [] conn[c].req.method = "PUT" -> "update_item"
                                  [] conn[c].req.method = "DELETE" -> "delete_item"
       /\ (Responded(c) /\ IsUpdateItem(conn[c].req)) =>
             /\ conn[c].resp = ExpectedUpdateItem(conn[c].req)
             /\ conn[c].resp.status = 200 <=>
                   (IsIntegerText(conn[c].req.seg) /\ BodyErrors(conn[c].req.body) = {})
             /\ conn[c].resp.status # 200 =>
                   conn[c].resp.status = 422 /\ HandlerNotRun(c)
       /\ (Responded(c) /\ IsDeleteItem(conn[c].req)) =>
             /\ conn[c].resp = ExpectedDeleteItem(conn[c].req)
             /\ ~IsIntegerText(conn[c].req.seg) =>
                   conn[c].resp.status = 422 /\ HandlerNotRun(c)
       /\ (Responded(c) /\ IsReadItem(conn[c].req) /\ IsIntegerText(conn[c].req.seg)
             /\ IntegerOf[conn[c].req.seg] \in conn[c].after) =>
             conn[c].resp = Response(200, [item_id |-> JInt(IntegerOf[conn[c].req.seg])])

\* GET /items/1 arrived after DELETE /items/1 was answered, and got item 1.
C10_Witness ==
    \E c \in Clients :
       /\ Responded(c)
       /\ IsReadItem(conn[c].req)
       /\ conn[c].req.seg = <<"1">>
       /\ 1 \in conn[c].after
       /\ conn[c].resp = Response(200, [item_id |-> JInt(1)])

====
